---- MODULE Spec2Model ----
(***************************************************************************)
(* Model of the mindmap graph store (mindmap-backend/database.py,          *)
(* class MindMapDB) as it is driven by concurrent request threads that     *)
(* share one sqlite3 connection (check_same_thread=False).                 *)
(*                                                                         *)
(* One step of a thread is one SQL statement on the shared connection      *)
(* (together with the commit that follows it and the local computation     *)
(* around it).  All threads use the same connection, so every statement    *)
(* sees the effects of every earlier statement, committed or not.          *)
(* Tables are sequences of rows in rowid order (no row is ever deleted,    *)
(* so rowid order is insertion order and the AUTOINCREMENT id of a row is  *)
(* its position).  The created_at / accessed_at timestamps are not         *)
(* modelled.  Arithmetic on embeddings is exact.                           *)
(***************************************************************************)
EXTENDS Integers, Sequences, FiniteSets, TLC

\* ---------------------------------------------------------------- bounds
NumIds == 3
NumRels == 1
MaxCalls == 2
MaxRows == 6

NodeIds == 1..NumIds
Relationships == 1..NumRels
Threads == {"t1", "t2"}

\* ------------------------------------------------------- program constants
SUGGEST_TOP_K == 5
SUGGEST_THRESHOLD == 500    \* 0.5, in thousandths

\* ------------------------------------------------------------------ inputs
Contents == {"c1", "c2", "c3", "c4"}

\* tags are lists of strings; a string is a sequence of characters
TagA == <<"a">>
TagUpperA == <<"A">>
TagB == <<"b">>
TagWild == <<"_">>

\* (content, tags, priority) triples handed to insert_node
Payloads ==
    { [content |-> "c1", tags |-> <<TagA>>, priority |-> "critical"],
      [content |-> "c2", tags |-> <<TagUpperA, TagB>>, priority |-> "high"],
      [content |-> "c3", tags |-> <<>>, priority |-> "normal"] }

\* the optional tag filter of search_nodes
NoTags == [given |-> FALSE, list |-> <<>>]
Tags(list) == [given |-> TRUE, list |-> list]

\* (query, tags, top_k) triples handed to search_nodes
SearchInputs ==
    { [query |-> "c1", tags |-> NoTags, top_k |-> 2],
      [query |-> "c3", tags |-> NoTags, top_k |-> 1],
      [query |-> "c2", tags |-> NoTags, top_k |-> 0],
      [query |-> "c3", tags |-> NoTags, top_k |-> -1],
      [query |-> "c1", tags |-> Tags(<<>>), top_k |-> 2],
      [query |-> "c2", tags |-> Tags(<<TagA>>), top_k |-> 2],
      [query |-> "c1", tags |-> Tags(<<TagB, TagWild>>), top_k |-> 1] }

NoValue == [op |-> "none"]
None == [is_none |-> TRUE]

\* ------------------------------------------------------- embedding provider
\* self.model.encode(text): deterministic, fixed dimension
Encode(text) ==
    CASE text = "c1" -> <<1, 1, 0>>
      [] text = "c2" -> <<1, 0, 1>>
      [] text = "c3" -> <<0, 0, 1>>
      [] text = "c4" -> <<17, 16, 0>>

\* self.embedding_dim = self.model.get_sentence_embedding_dimension()
EmbeddingDim == 3

\* what a provider that is out of order returns: a vector of another
\* dimension, or the zero vector
ShortVector == <<1, 1>>
ZeroVector == <<0, 0, 0>>

\* -------------------------------------------------------- similarity engine
RECURSIVE DotFrom(_, _, _)
DotFrom(a, b, i) == IF i > Len(a) THEN 0 ELSE a[i] * b[i] + DotFrom(a, b, i + 1)

\* np.dot(a, b) of two vectors of one dimension (the sum written out for
\* dimension EmbeddingDim)
Dot(a, b) ==
    IF Len(a) = EmbeddingDim
    THEN a[1] * b[1] + a[2] * b[2] + a[3] * b[3]
    ELSE DotFrom(a, b, 1)

\* np.dot raises ValueError (shapes not aligned) for vectors of two dimensions
Aligned(a, b) == Len(a) = Len(b)

\* np.dot(a, b) / (norm(a) * norm(b)), kept exactly as the pair
\* (num, den2) standing for num / sqrt(den2); with a vector of norm 0 the
\* division is 0.0 / 0.0, which numpy evaluates to nan
Cosine(a, b) == [num |-> Dot(a, b), den2 |-> Dot(a, a) * Dot(b, b)]
IsNaN(x) == x.den2 = 0

\* float('nan') where a similarity is held in thousandths
NaN == 9999

RECURSIVE FracLeq(_, _, _, _)
\* p / q <= r / s for p, r >= 0 and q, s > 0, without forming a product
FracLeq(p, q, r, s) ==
    IF p \div q # r \div s THEN p \div q < r \div s
    ELSE IF p % q = 0 THEN TRUE
    ELSE IF r % s = 0 THEN FALSE
    ELSE FracLeq(s, r % s, q, p % q)

\* the similarities that can come up
CosineValues ==
    { Cosine(Encode(c), Encode(d)) : c \in Contents, d \in Contents }
        \cup {Cosine(ShortVector, ShortVector)}

\* x in thousandths, rounded to the nearest
Thousandths ==
    [x \in CosineValues |->
        LET k == CHOOSE k \in 0..1000 :
                     /\ k = 0 \/ FracLeq((2 * k - 1) * (2 * k - 1), 4000000,
                                         x.num * x.num, x.den2)
                     /\ ~FracLeq((2 * k + 1) * (2 * k + 1), 4000000,
                                 x.num * x.num, x.den2)
        IN IF x.num < 0 THEN -k ELSE k]

\* round(x, 3), as an integer number of thousandths; round(nan, 3) is nan
Round3(x) == IF IsNaN(x) THEN NaN ELSE Thousandths[x]

\* x >= threshold, threshold in thousandths; nan >= threshold is False
AtLeast(x, threshold) ==
    IF IsNaN(x) THEN FALSE
    ELSE IF threshold >= 0
    THEN x.num >= 0 /\ FracLeq(threshold * threshold, 1000000, x.num * x.num, x.den2)
    ELSE x.num >= 0 \/ FracLeq(x.num * x.num, x.den2, threshold * threshold, 1000000)

\* x > y for two similarities
Greater(x, y) ==
    IF x.num >= 0 /\ y.num >= 0 THEN ~FracLeq(x.num * x.num, x.den2, y.num * y.num, y.den2)
    ELSE IF x.num < 0 /\ y.num < 0 THEN ~FracLeq(y.num * y.num, y.den2, x.num * x.num, x.den2)
    ELSE x.num >= 0

\* ------------------------------------------------------------ list helpers
\* Python slice s[:k]
Slice(s, k) ==
    IF k >= 0
    THEN SubSeq(s, 1, IF k < Len(s) THEN k ELSE Len(s))
    ELSE SubSeq(s, 1, IF Len(s) + k > 0 THEN Len(s) + k ELSE 0)

\* a < b for two rounded similarities; every comparison with nan is False
Less(a, b) == a # NaN /\ b # NaN /\ a < b

RECURSIVE InsertSorted(_, _)
\* put x in front of the first element whose similarity is not larger
InsertSorted(x, s) ==
    IF s = <<>> THEN <<x>>
    ELSE IF Less(x.similarity, Head(s).similarity)
         THEN <<Head(s)>> \o InsertSorted(x, Tail(s))
         ELSE <<x>> \o s

RECURSIVE SortBySimilarity(_)
\* list.sort(key=lambda x: x['similarity'], reverse=True): stable, descending.
\* A list whose keys are all nan keeps its order, as no comparison is True;
\* a list that mixes nan with numbers does not come up in the specifications.
SortBySimilarity(s) ==
    IF s = <<>> THEN <<>>
    ELSE InsertSorted(Head(s), SortBySimilarity(Tail(s)))

\* ------------------------------------------------------------- tags as text
RECURSIVE JoinQuoted(_)
JoinQuoted(tags) ==
    IF tags = <<>> THEN <<>>
    ELSE <<"\"">> \o Head(tags) \o <<"\"">> \o
         (IF Tail(tags) = <<>> THEN <<>> ELSE <<",", " ">> \o JoinQuoted(Tail(tags)))

\* json.dumps(tags): the text stored in column tags (the tags used here hold
\* no character that json.dumps escapes)
JsonDumps(tags) == <<"[">> \o JoinQuoted(tags) \o <<"]">>

\* the tag lists that are ever stored
TagLists == { p.tags : p \in Payloads } \cup { <<TagB>> }

\* json.loads(text) of a stored text
JsonLoads(text) == CHOOSE tags \in TagLists : JsonDumps(tags) = text

\* SQLite LIKE compares ASCII letters without regard to case
Fold(c) == CASE c = "A" -> "a" [] c = "B" -> "b" [] OTHER -> c

RECURSIVE Like(_, _)
\* text LIKE pattern: % matches any run of characters, _ any one character
Like(text, pattern) ==
    IF pattern = <<>> THEN text = <<>>
    ELSE IF Head(pattern) = "%"
         THEN \E k \in 0..Len(text) : Like(SubSeq(text, k + 1, Len(text)), Tail(pattern))
         ELSE /\ text # <<>>
              /\ Head(pattern) = "_" \/ Fold(Head(pattern)) = Fold(Head(text))
              /\ Like(Tail(text), Tail(pattern))

\* params = [f'%"{tag}"%' for tag in tags]
TagPattern(tag) == <<"%", "\"">> \o tag \o <<"\"", "%">>

\* ------------------------------------------------------------------- state
VARIABLES
    nodes,        \* table nodes: rows in rowid order
    edges,        \* table edges: rows in rowid order
    access_logs,  \* table access_logs: rows in rowid order
    pc,           \* per thread: the statement it executes next
    frame,        \* per thread: arguments and locals of the running call
    ret,          \* per thread: outcome of its last finished call
    calls,        \* number of calls started so far
    clock,        \* datetime.now(): the number of readings taken so far
    navDone,      \* history: per node id, navigate_node calls that returned
    justInserted, \* history: id whose successful insert_node was the last
                  \* call to return, 0 if the last call to return was another
    loop_pc,      \* autonomy loop: the statement it executes next
    cycle,        \* autonomy loop: number of autonomous_check calls started
    response,     \* autonomous_check: the agent's response
    commands,     \* autonomous_check: the parsed commands
    attempts,     \* history: the sends attempted in the current cycle
    telegram_failures  \* history: Telegram sends that failed or raised so far

loopVars == <<loop_pc, cycle, response, commands, attempts, telegram_failures>>
vars == <<nodes, edges, access_logs, pc, frame, ret, calls, clock, navDone, justInserted,
          loop_pc, cycle, response, commands, attempts, telegram_failures>>
store == <<nodes, edges, access_logs>>

\* autonomy_loop.py is a process of its own; before main() runs it has no
\* response, no commands and has attempted no send
NoCommands == [channel \in {} |-> <<>>]
LoopNotStarted ==
    /\ loop_pc = "main"
    /\ cycle = 0
    /\ response = None
    /\ commands = NoCommands
    /\ attempts = <<>>
    /\ telegram_failures = 0

HasNode(ns, node_id) == \E i \in 1..Len(ns) : ns[i].id = node_id
NodeRow(ns, node_id) == ns[CHOOSE i \in 1..Len(ns) : ns[i].id = node_id]
AccessCount(ns, node_id) == IF HasNode(ns, node_id) THEN NodeRow(ns, node_id).access_count ELSE 0
HasEdge(es, s, t, r) ==
    \E i \in 1..Len(es) :
        es[i].source_id = s /\ es[i].target_id = t /\ es[i].relationship = r
EdgesWithKey(es, s, t, r) ==
    { i \in 1..Len(es) :
        es[i].source_id = s /\ es[i].target_id = t /\ es[i].relationship = r }

\* a row of table nodes as insert_node writes it (access_count DEFAULT 0);
\* created_at is the reading of the clock, embedding the provider's vector
NewNodeRow(node_id, p, created_at, embedding) ==
    [id |-> node_id, content |-> p.content, tags |-> JsonDumps(p.tags),
     priority |-> p.priority, created_at |-> created_at, access_count |-> 0,
     embedding |-> embedding]

\* ------------------------------------------------------- initial stores
\* The database file outlives the process (CREATE TABLE IF NOT EXISTS): a
\* store starts empty or with what earlier runs left in it. The clock reads 0
\* when the process starts; rows of earlier runs carry readings below 0.
Row1 == NewNodeRow(1, [content |-> "c1", tags |-> <<TagA>>, priority |-> "critical"],
                   -20, Encode("c1"))
Row2 == NewNodeRow(2, [content |-> "c2", tags |-> <<TagUpperA, TagB>>, priority |-> "high"],
                   -19, Encode("c2"))
Edge12 == [id |-> 1, source_id |-> 1, target_id |-> 2, relationship |-> 1,
           semantic_strength |-> Cosine(Row1.embedding, Row2.embedding)]

InitialStores ==
    { [nodes |-> <<>>, edges |-> <<>>],
      [nodes |-> <<Row1>>, edges |-> <<>>],
      [nodes |-> <<Row1, Row2>>, edges |-> <<>>],
      [nodes |-> <<Row1, Row2>>, edges |-> <<Edge12>>] }

\* larger stores left by earlier runs; their rows carry ids that no call of
\* the model passes, except the hub node of HubStores
StoredId(i) == 10 + i
StoredRow(i, content) ==
    NewNodeRow(StoredId(i), [content |-> content, tags |-> <<TagB>>, priority |-> "low"],
               i - StoredId(0), Encode(content))

\* up to MaxRows nodes, no edge
RankContents == {"c1", "c2", "c4"}
RankStores ==
    { [nodes |-> [i \in 1..Len(cs) |-> StoredRow(i, cs[i])], edges |-> <<>>] :
        cs \in UNION { [1..n -> RankContents] : n \in 0..MaxRows } }

\* two rows left by overlapping inserts: the call that read the clock first
\* ran its INSERT last, so the later row carries the earlier created_at
RacedStores ==
    { [nodes |-> <<StoredRow(2, c), StoredRow(1, d)>>, edges |-> <<>>] :
        c \in RankContents, d \in RankContents }

\* node 1 and five more nodes; any of three edges out of node 1 and two into it
HubNodes ==
    <<Row1>> \o [i \in 1..5 |->
                    [StoredRow(i, IF i % 2 = 0 THEN "c2" ELSE "c3")
                        EXCEPT !.access_count = i % 3]]
HubPairs ==
    << [k |-> 1, source_id |-> 1, target_id |-> StoredId(1)],
       [k |-> 2, source_id |-> 1, target_id |-> StoredId(2)],
       [k |-> 3, source_id |-> 1, target_id |-> StoredId(3)],
       [k |-> 4, source_id |-> StoredId(4), target_id |-> 1],
       [k |-> 5, source_id |-> StoredId(5), target_id |-> 1] >>
HubEdges(ks) ==
    LET sel == SelectSeq(HubPairs, LAMBDA e : e.k \in ks)
    IN [i \in 1..Len(sel) |->
           [id |-> i, source_id |-> sel[i].source_id, target_id |-> sel[i].target_id,
            relationship |-> 1,
            semantic_strength |->
                Cosine(NodeRow(HubNodes, sel[i].source_id).embedding,
                       NodeRow(HubNodes, sel[i].target_id).embedding)]]
HubStores == { [nodes |-> HubNodes, edges |-> HubEdges(ks)] : ks \in SUBSET (1..5) }

Init ==
    /\ \E s \in InitialStores : nodes = s.nodes /\ edges = s.edges
    /\ access_logs = <<>>
    /\ pc = [t \in Threads |-> "idle"]
    /\ frame = [t \in Threads |-> NoValue]
    /\ ret = [t \in Threads |-> NoValue]
    /\ calls = 0
    /\ clock = 0
    /\ navDone = [n \in NodeIds |-> 0]
    /\ justInserted = 0
    /\ LoopNotStarted

\* a thread takes up a new call
Begin(t) == pc[t] = "idle" /\ calls < MaxCalls /\ calls' = calls + 1

\* the call of thread t returns r
Return(t, r) ==
    /\ pc' = [pc EXCEPT ![t] = "idle"]
    /\ frame' = [frame EXCEPT ![t] = NoValue]
    /\ ret' = [ret EXCEPT ![t] = r]
    /\ justInserted' = IF r.op = "insert_node" /\ r.status = "ok" THEN r.node_id ELSE 0
    /\ UNCHANGED <<clock, loopVars>>

\* the call of thread t goes on with statement p and locals f
Jump(t, p, f) ==
    /\ pc' = [pc EXCEPT ![t] = p]
    /\ frame' = [frame EXCEPT ![t] = f]
    /\ ret' = [ret EXCEPT ![t] = NoValue]
    /\ UNCHANGED <<justInserted, loopVars>>

\* ... without reading the clock
Goto(t, p, f) == Jump(t, p, f) /\ UNCHANGED clock

\* ------------------------------------------------------------ insert_node
\* entry: the embedding is computed and the clock is read (datetime.now(),
\* while the parameters of the INSERT are built) before the statement runs;
\* no two readings of the clock are the same
insert_node(t) ==
    /\ Begin(t)
    /\ clock' = clock + 1
    /\ \E node_id \in NodeIds, p \in Payloads :
          Jump(t, "insert_INSERT",
               [op |-> "insert_node", node_id |-> node_id, payload |-> p,
                embedding |-> Encode(p.content), created_at |-> clock,
                fresh |-> ~HasNode(nodes, node_id)])
    /\ UNCHANGED <<store, navDone>>

\* mutant: the id column without its PRIMARY KEY
PrimaryKeyViolated_nokey(ns, node_id) == FALSE

\* id TEXT PRIMARY KEY: a second row with the same id is refused
PrimaryKeyViolated(ns, node_id) == HasNode(ns, node_id)

\* mutant: INSERT OR REPLACE INTO nodes
insert_node_INSERT_replace(t) ==
    /\ pc[t] = "insert_INSERT"
    /\ nodes' = Append(SelectSeq(nodes, LAMBDA row : row.id # frame[t].node_id),
                       NewNodeRow(frame[t].node_id, frame[t].payload,
                                  frame[t].created_at, frame[t].embedding))
    /\ Goto(t, "insert_suggest", frame[t])
    /\ UNCHANGED <<edges, access_logs, calls, navDone>>

\* INSERT INTO nodes ...; commit
insert_node_INSERT(t) ==
    /\ pc[t] = "insert_INSERT"
    /\ IF PrimaryKeyViolated(nodes, frame[t].node_id)
       THEN /\ Return(t, frame[t] @@ [status |-> "IntegrityError"])
            /\ UNCHANGED <<store, calls, navDone>>
       ELSE /\ nodes' = Append(nodes, NewNodeRow(frame[t].node_id, frame[t].payload,
                                                 frame[t].created_at, frame[t].embedding))
            /\ Goto(t, "insert_suggest", frame[t])
            /\ UNCHANGED <<edges, access_logs, calls, navDone>>

\* _find_similar_nodes: the other rows in scan order, those at or above the
\* threshold, sorted by rounded similarity, cut to top_k
find_similar_nodes(ns, query_embedding, exclude_id, top_k, threshold) ==
    LET others == SelectSeq(ns, LAMBDA row : row.id # exclude_id)
        close == SelectSeq(others,
                     LAMBDA row : AtLeast(Cosine(query_embedding, row.embedding), threshold))
        similarities ==
            [i \in 1..Len(close) |->
                [node_id |-> close[i].id, content |-> close[i].content,
                 tags |-> JsonLoads(close[i].tags),
                 similarity |-> Round3(Cosine(query_embedding, close[i].embedding))]]
    IN Slice(SortBySimilarity(similarities), top_k)

\* variant: every suggestion is stored as an edge from the new node
insert_node_suggest_autoconnect(t) ==
    /\ pc[t] = "insert_suggest"
    /\ LET suggestions ==
               find_similar_nodes(nodes, frame[t].embedding,
                                  frame[t].node_id, SUGGEST_TOP_K, SUGGEST_THRESHOLD)
       IN /\ Return(t, frame[t] @@
                    [status |-> "ok", suggested_connections |-> suggestions])
          /\ edges' = edges \o
                 [i \in 1..Len(suggestions) |->
                     [id |-> Len(edges) + i, source_id |-> frame[t].node_id,
                      target_id |-> suggestions[i].node_id, relationship |-> 1,
                      semantic_strength |->
                          Cosine(frame[t].embedding,
                                 NodeRow(nodes, suggestions[i].node_id).embedding)]]
    /\ UNCHANGED <<nodes, access_logs, calls, navDone>>

\* suggestions = self._find_similar_nodes(embedding, node_id, top_k=5, threshold=0.5);
\* np.dot raises ValueError at the first scanned row of another dimension
insert_node_suggest(t) ==
    /\ pc[t] = "insert_suggest"
    /\ IF \E i \in 1..Len(nodes) :
             nodes[i].id # frame[t].node_id /\ ~Aligned(frame[t].embedding, nodes[i].embedding)
       THEN Return(t, frame[t] @@ [status |-> "ValueError"])
       ELSE Return(t, frame[t] @@
                 [status |-> "ok",
                  suggested_connections |->
                      find_similar_nodes(nodes, frame[t].embedding,
                                         frame[t].node_id, SUGGEST_TOP_K, SUGGEST_THRESHOLD)])
    /\ UNCHANGED <<store, calls, navDone>>

\* ----------------------------------------------------------- connect_nodes
\* mutant: the SELECT without its WHERE clause
EndpointRows_nowhere(ns, source_id, target_id) == ns

\* SELECT embedding FROM nodes WHERE id IN (?, ?)
EndpointRows(ns, source_id, target_id) ==
    SelectSeq(ns, LAMBDA row : row.id \in {source_id, target_id})

\* if len(rows) != 2: raise ValueError
EndpointsFound(rows) == Len(rows) = 2

connect_nodes(t) ==
    /\ Begin(t)
    /\ \E source_id \in NodeIds, target_id \in NodeIds, relationship \in Relationships :
          Goto(t, "connect_SELECT",
               [op |-> "connect_nodes", source_id |-> source_id,
                target_id |-> target_id, relationship |-> relationship])
    /\ UNCHANGED <<store, navDone>>

\* variant: the strength is computed from the first row alone
connect_nodes_SELECT_self(t) ==
    /\ pc[t] = "connect_SELECT"
    /\ LET rows == EndpointRows(nodes, frame[t].source_id, frame[t].target_id)
       IN IF ~EndpointsFound(rows)
          THEN Return(t, frame[t] @@ [status |-> "ValueError"])
          ELSE Goto(t, "connect_INSERT",
                    frame[t] @@ [semantic_strength |->
                                     Cosine(rows[1].embedding, rows[1].embedding)])
    /\ UNCHANGED <<store, calls, navDone>>

\* SELECT embedding FROM nodes WHERE id IN (?, ?); cosine of the two rows
\* (np.dot of vectors of different lengths raises ValueError)
connect_nodes_SELECT(t) ==
    /\ pc[t] = "connect_SELECT"
    /\ LET rows == EndpointRows(nodes, frame[t].source_id, frame[t].target_id)
       IN IF ~EndpointsFound(rows) \/ ~Aligned(rows[1].embedding, rows[2].embedding)
          THEN Return(t, frame[t] @@ [status |-> "ValueError"])
          ELSE Goto(t, "connect_INSERT",
                    frame[t] @@ [semantic_strength |->
                                     Cosine(rows[1].embedding, rows[2].embedding)])
    /\ UNCHANGED <<store, calls, navDone>>

\* variant: INSERT OR REPLACE INTO edges, the row with the same key is dropped
\* and the new row gets the next rowid
InsertOrIgnoreEdge_replace(es, f) ==
    Append(SelectSeq(es, LAMBDA e :
               <<e.source_id, e.target_id, e.relationship>> #
                   <<f.source_id, f.target_id, f.relationship>>),
           [id |-> Len(es) + 1, source_id |-> f.source_id,
            target_id |-> f.target_id, relationship |-> f.relationship,
            semantic_strength |-> f.semantic_strength])

\* INSERT OR IGNORE INTO edges ...  UNIQUE(source_id, target_id, relationship)
InsertOrIgnoreEdge(es, f) ==
    IF HasEdge(es, f.source_id, f.target_id, f.relationship)
    THEN es
    ELSE Append(es, [id |-> Len(es) + 1, source_id |-> f.source_id,
                     target_id |-> f.target_id, relationship |-> f.relationship,
                     semantic_strength |-> f.semantic_strength])

connect_nodes_INSERT(t) ==
    /\ pc[t] = "connect_INSERT"
    /\ edges' = InsertOrIgnoreEdge(edges, frame[t])
    /\ Return(t, [frame[t] EXCEPT !.semantic_strength = Round3(@)] @@ [status |-> "ok"])
    /\ UNCHANGED <<nodes, access_logs, calls, navDone>>

\* ------------------------------------------------------------- _log_access
\* variant: the newest entry is kept first
log_access_prepend(logs, node_id, access_type) ==
    <<[node_id |-> node_id, access_type |-> access_type]>> \o logs

\* variant: every entry is written with the type 'navigate'
log_access_navigate(logs, node_id, access_type) ==
    Append(logs, [node_id |-> node_id, access_type |-> "navigate"])

\* INSERT INTO access_logs (node_id, accessed_at, access_type); commit
log_access(logs, node_id, access_type) ==
    Append(logs, [node_id |-> node_id, access_type |-> access_type])

\* ----------------------------------------------------------- navigate_node
\* after_insert (history): the call directly follows the successful
\* insert_node of the same id
navigate_node(t) ==
    /\ Begin(t)
    /\ \E node_id \in NodeIds :
          Goto(t, "navigate_SELECT",
               [op |-> "navigate_node", node_id |-> node_id,
                after_insert |-> justInserted = node_id])
    /\ UNCHANGED <<store, navDone>>

\* mutant: the access is logged before the node is looked up
navigate_node_SELECT_logfirst(t) ==
    /\ pc[t] = "navigate_SELECT"
    /\ access_logs' = Append(access_logs, [node_id |-> frame[t].node_id,
                                           access_type |-> "navigate"])
    /\ IF ~HasNode(nodes, frame[t].node_id)
       THEN Return(t, frame[t] @@ [status |-> "ValueError"])
       ELSE Goto(t, "navigate_outgoing",
                 frame[t] @@ [node_row |-> NodeRow(nodes, frame[t].node_id)])
    /\ UNCHANGED <<nodes, edges, calls, navDone>>

\* SELECT * FROM nodes WHERE id = ?; if not node_row: raise ValueError
navigate_node_SELECT(t) ==
    /\ pc[t] = "navigate_SELECT"
    /\ IF ~HasNode(nodes, frame[t].node_id)
       THEN Return(t, frame[t] @@ [status |-> "ValueError"])
       ELSE Goto(t, "navigate_outgoing",
                 frame[t] @@ [node_row |-> NodeRow(nodes, frame[t].node_id)])
    /\ UNCHANGED <<store, calls, navDone>>

\* edges e JOIN nodes n ON e.target_id = n.id WHERE e.source_id = ?
Outgoing(ns, es, node_id) ==
    LET hit == SelectSeq(es, LAMBDA e : e.source_id = node_id /\ HasNode(ns, e.target_id))
    IN [i \in 1..Len(hit) |->
           [target_id |-> hit[i].target_id, relationship |-> hit[i].relationship,
            semantic_strength |-> hit[i].semantic_strength,
            content |-> NodeRow(ns, hit[i].target_id).content,
            tags |-> NodeRow(ns, hit[i].target_id).tags]]

\* variant: the incoming query selects on e.source_id as the outgoing one does
Incoming_bysource(ns, es, node_id) ==
    LET hit == SelectSeq(es, LAMBDA e : e.source_id = node_id /\ HasNode(ns, e.target_id))
    IN [i \in 1..Len(hit) |->
           [source_id |-> hit[i].source_id, relationship |-> hit[i].relationship,
            semantic_strength |-> hit[i].semantic_strength,
            content |-> NodeRow(ns, hit[i].source_id).content,
            tags |-> NodeRow(ns, hit[i].source_id).tags]]

\* edges e JOIN nodes n ON e.source_id = n.id WHERE e.target_id = ?
Incoming(ns, es, node_id) ==
    LET hit == SelectSeq(es, LAMBDA e : e.target_id = node_id /\ HasNode(ns, e.source_id))
    IN [i \in 1..Len(hit) |->
           [source_id |-> hit[i].source_id, relationship |-> hit[i].relationship,
            semantic_strength |-> hit[i].semantic_strength,
            content |-> NodeRow(ns, hit[i].source_id).content,
            tags |-> NodeRow(ns, hit[i].source_id).tags]]

navigate_node_outgoing(t) ==
    /\ pc[t] = "navigate_outgoing"
    /\ Goto(t, "navigate_incoming",
            frame[t] @@ [outgoing_connections |-> Outgoing(nodes, edges, frame[t].node_id)])
    /\ UNCHANGED <<store, calls, navDone>>

navigate_node_incoming(t) ==
    /\ pc[t] = "navigate_incoming"
    /\ Goto(t, "navigate_log",
            frame[t] @@ [incoming_connections |-> Incoming(nodes, edges, frame[t].node_id)])
    /\ UNCHANGED <<store, calls, navDone>>

\* self._log_access(node_id, 'navigate')
navigate_node_log(t) ==
    /\ pc[t] = "navigate_log"
    /\ access_logs' = log_access(access_logs, frame[t].node_id, "navigate")
    /\ Goto(t, "navigate_UPDATE", frame[t])
    /\ UNCHANGED <<nodes, edges, calls, navDone>>

\* mutant: UPDATE nodes SET access_count = access_count + 1, for every row
IncrementAccessCount_all(ns, f) ==
    [i \in 1..Len(ns) |-> [ns[i] EXCEPT !.access_count = @ + 1]]

\* mutant: the new count is computed from the row read at the start of the call
IncrementAccessCount_stale(ns, f) ==
    [i \in 1..Len(ns) |->
        IF ns[i].id = f.node_id
        THEN [ns[i] EXCEPT !.access_count = f.node_row.access_count + 1]
        ELSE ns[i]]

\* UPDATE nodes SET access_count = access_count + 1 WHERE id = ?
IncrementAccessCount(ns, f) ==
    [i \in 1..Len(ns) |->
        IF ns[i].id = f.node_id
        THEN [ns[i] EXCEPT !.access_count = @ + 1]
        ELSE ns[i]]

\* mutant: the count is returned as it was read
ReturnedAccessCount_read(f) == f.node_row.access_count

\* "access_count": node_row['access_count'] + 1
ReturnedAccessCount(f) == f.node_row.access_count + 1

navigate_node_UPDATE(t) ==
    /\ pc[t] = "navigate_UPDATE"
    /\ nodes' = IncrementAccessCount(nodes, frame[t])
    /\ navDone' = [navDone EXCEPT ![frame[t].node_id] = @ + 1]
    /\ Return(t, [op |-> "navigate_node", node_id |-> frame[t].node_id,
                  status |-> "ok", after_insert |-> frame[t].after_insert,
                  node |-> [id |-> frame[t].node_row.id,
                            content |-> frame[t].node_row.content,
                            tags |-> JsonLoads(frame[t].node_row.tags),
                            priority |-> frame[t].node_row.priority,
                            access_count |-> ReturnedAccessCount(frame[t])],
                  outgoing_connections |-> frame[t].outgoing_connections,
                  incoming_connections |-> frame[t].incoming_connections])
    /\ UNCHANGED <<edges, access_logs, calls>>

\* ------------------------------------------------------------ search_nodes
\* if tags: ... WHERE (tags LIKE ? OR tags LIKE ? ...)
Candidates(ns, tags) ==
    IF tags.given /\ tags.list # <<>>
    THEN SelectSeq(ns, LAMBDA row :
             \E i \in 1..Len(tags.list) : Like(row.tags, TagPattern(tags.list[i])))
    ELSE ns

\* the result list of search_nodes before it is cut to top_k
Ranked(ns, query_embedding, tags) ==
    LET rows == Candidates(ns, tags)
    IN SortBySimilarity(
           [i \in 1..Len(rows) |->
               [node_id |-> rows[i].id, content |-> rows[i].content,
                tags |-> JsonLoads(rows[i].tags), priority |-> rows[i].priority,
                similarity |-> Round3(Cosine(query_embedding, rows[i].embedding)),
                access_count |-> rows[i].access_count]])

\* entry: the query embedding is computed before the store is read
search_nodes(t) ==
    /\ Begin(t)
    /\ \E in \in SearchInputs :
          Goto(t, "search_SELECT",
               [op |-> "search_nodes", query |-> in.query, tags |-> in.tags,
                top_k |-> in.top_k, query_embedding |-> Encode(in.query)])
    /\ UNCHANGED <<store, navDone>>

\* SELECT ... FROM nodes [WHERE ...]; rank; results[:top_k]; np.dot raises
\* ValueError at the first candidate of another dimension
search_nodes_SELECT(t) ==
    /\ pc[t] = "search_SELECT"
    /\ LET rows == Candidates(nodes, frame[t].tags)
           call == frame[t] @@
                   [results |-> Slice(Ranked(nodes, frame[t].query_embedding,
                                             frame[t].tags),
                                      frame[t].top_k)]
       IN IF \E i \in 1..Len(rows) : ~Aligned(frame[t].query_embedding, rows[i].embedding)
          THEN Return(t, frame[t] @@ [status |-> "ValueError"])
          ELSE IF call.results = <<>>
          THEN Return(t, call @@ [status |-> "ok"])
          ELSE Goto(t, "search_log", call @@ [logged |-> 0])
    /\ UNCHANGED <<store, calls, navDone>>

\* for result in results[:top_k]: self._log_access(result['node_id'], 'search')
search_nodes_log(t) ==
    /\ pc[t] = "search_log"
    /\ access_logs' =
           log_access(access_logs, frame[t].results[frame[t].logged + 1].node_id, "search")
    /\ IF frame[t].logged + 1 = Len(frame[t].results)
       THEN Return(t, [op |-> "search_nodes", query |-> frame[t].query,
                       tags |-> frame[t].tags, top_k |-> frame[t].top_k,
                       results |-> frame[t].results, status |-> "ok"])
       ELSE Goto(t, "search_log", [frame[t] EXCEPT !.logged = @ + 1])
    /\ UNCHANGED <<nodes, edges, calls, navDone>>

\* --------------------------------------------------------------- get_stats
\* variant: the join on n.id = e.source_id alone
Degree_out(es, node_id) ==
    Cardinality({ i \in 1..Len(es) : es[i].source_id = node_id })

\* COUNT(e.id) over nodes n LEFT JOIN edges e ON n.id = e.source_id OR n.id = e.target_id
Degree(es, node_id) ==
    Cardinality({ i \in 1..Len(es) :
                    es[i].source_id = node_id \/ es[i].target_id = node_id })

\* SELECT COUNT(*) FROM nodes
get_stats(t) ==
    /\ Begin(t)
    /\ Goto(t, "stats_edges", [op |-> "get_stats", total_nodes |-> Len(nodes)])
    /\ UNCHANGED <<store, navDone>>

\* SELECT COUNT(*) FROM edges
get_stats_edges(t) ==
    /\ pc[t] = "stats_edges"
    /\ Goto(t, "stats_connected", frame[t] @@ [total_edges |-> Len(edges)])
    /\ UNCHANGED <<store, calls, navDone>>

\* ... GROUP BY n.id ORDER BY connection_count DESC LIMIT 1: which of several
\* rows with the largest count comes first is not fixed by the query
get_stats_connected(t) ==
    /\ pc[t] = "stats_connected"
    /\ IF nodes = <<>>
       THEN Goto(t, "stats_accessed", frame[t] @@ [most_connected_node |-> None])
       ELSE \E i \in 1..Len(nodes) :
               /\ \A j \in 1..Len(nodes) : Degree(edges, nodes[j].id) <= Degree(edges, nodes[i].id)
               /\ Goto(t, "stats_accessed",
                       frame[t] @@ [most_connected_node |->
                                       [id |-> nodes[i].id, content |-> nodes[i].content,
                                        connection_count |-> Degree(edges, nodes[i].id)]])
    /\ UNCHANGED <<store, calls, navDone>>

\* ... ORDER BY access_count DESC LIMIT 1: likewise for equal access counts
get_stats_accessed(t) ==
    /\ pc[t] = "stats_accessed"
    /\ IF nodes = <<>>
       THEN Return(t, frame[t] @@ [most_accessed_node |-> None, status |-> "ok"])
       ELSE \E i \in 1..Len(nodes) :
               /\ \A j \in 1..Len(nodes) : nodes[j].access_count <= nodes[i].access_count
               /\ Return(t, frame[t] @@
                         [most_accessed_node |->
                              [id |-> nodes[i].id, content |-> nodes[i].content,
                               access_count |-> nodes[i].access_count],
                          status |-> "ok"])
    /\ UNCHANGED <<store, calls, navDone>>

\* ------------------------------------------- embedding provider out of order
\* self.model.encode raises, or returns a vector of another dimension, or
\* returns the zero vector
ProviderFaults == {"error", "short", "zero"}
FaultyVector(provider) == IF provider = "short" THEN ShortVector ELSE ZeroVector

\* a store filled while the provider returned the zero vector
ZeroStores ==
    { [nodes |-> <<[Row1 EXCEPT !.embedding = ZeroVector],
                   [Row2 EXCEPT !.embedding = ZeroVector]>>,
       edges |-> <<>>] }

\* entry of an insert_node call during which the provider is out of order
insert_node_provider(t) ==
    /\ Begin(t)
    /\ \E node_id \in NodeIds, p \in Payloads, provider \in ProviderFaults :
          Goto(t, "insert_encode",
               [op |-> "insert_node", node_id |-> node_id, payload |-> p,
                provider |-> provider, fresh |-> ~HasNode(nodes, node_id)])
    /\ UNCHANGED <<store, navDone>>

\* variant: a failure of the provider is answered with the zero vector
insert_node_encode_substitute(t) ==
    /\ pc[t] = "insert_encode"
    /\ clock' = clock + 1
    /\ Jump(t, "insert_INSERT",
            frame[t] @@ [embedding |-> FaultyVector(frame[t].provider),
                         created_at |-> clock])
    /\ UNCHANGED <<store, calls, navDone>>

\* embedding = self.model.encode(content, convert_to_numpy=True): an exception
\* of the provider leaves insert_node; a vector is taken as it comes
insert_node_encode(t) ==
    /\ pc[t] = "insert_encode"
    /\ IF frame[t].provider = "error"
       THEN Return(t, frame[t] @@ [status |-> "ProviderError"])
       ELSE /\ clock' = clock + 1
            /\ Jump(t, "insert_INSERT",
                    frame[t] @@ [embedding |-> FaultyVector(frame[t].provider),
                                 created_at |-> clock])
    /\ UNCHANGED <<store, calls, navDone>>

\* entry of a search_nodes call during which the provider is out of order
search_nodes_provider(t) ==
    /\ Begin(t)
    /\ \E in \in SearchInputs, provider \in ProviderFaults :
          Goto(t, "search_encode",
               [op |-> "search_nodes", query |-> in.query, tags |-> in.tags,
                top_k |-> in.top_k, provider |-> provider])
    /\ UNCHANGED <<store, navDone>>

\* query_embedding = self.model.encode(query, convert_to_numpy=True)
search_nodes_encode(t) ==
    /\ pc[t] = "search_encode"
    /\ IF frame[t].provider = "error"
       THEN Return(t, frame[t] @@ [status |-> "ProviderError"])
       ELSE Goto(t, "search_SELECT",
                 frame[t] @@ [query_embedding |-> FaultyVector(frame[t].provider)])
    /\ UNCHANGED <<store, calls, navDone>>

\* ------------------------------------------------------------ specification
Step(t) ==
    \/ insert_node(t)
    \/ insert_node_INSERT(t)
    \/ insert_node_suggest(t)
    \/ connect_nodes(t)
    \/ connect_nodes_SELECT(t)
    \/ connect_nodes_INSERT(t)
    \/ navigate_node(t)
    \/ navigate_node_SELECT(t)
    \/ navigate_node_outgoing(t)
    \/ navigate_node_incoming(t)
    \/ navigate_node_log(t)
    \/ navigate_node_UPDATE(t)
    \/ search_nodes(t)
    \/ search_nodes_SELECT(t)
    \/ search_nodes_log(t)
    \/ get_stats(t)
    \/ get_stats_edges(t)
    \/ get_stats_connected(t)
    \/ get_stats_accessed(t)

\* request threads run concurrently: any thread may take the next step
Next == \E t \in Threads : Step(t)

Spec == Init /\ [][Next]_vars

\* one request at a time: a thread steps only while every other one is idle
SeqNext == \E t \in Threads : (\A u \in Threads \ {t} : pc[u] = "idle") /\ Step(t)

SeqSpec == Init /\ [][SeqNext]_vars

\* one call on a store that earlier runs have filled
StoreInit ==
    /\ \E s \in InitialStores \cup RankStores \cup RacedStores \cup HubStores :
          nodes = s.nodes /\ edges = s.edges
    /\ access_logs = <<>>
    /\ pc = [t \in Threads |-> "idle"]
    /\ frame = [t \in Threads |-> NoValue]
    /\ ret = [t \in Threads |-> NoValue]
    /\ calls = 0
    /\ clock = 0
    /\ navDone = [n \in NodeIds |-> 0]
    /\ justInserted = 0
    /\ LoopNotStarted

StoreNext ==
    \E t \in Threads :
        /\ \A u \in Threads \ {t} : pc[u] = "idle"
        /\ pc[t] = "idle" => calls = 0
        /\ Step(t)

StoreSpec == StoreInit /\ [][StoreNext]_vars

\* one call, during which the embedding provider may be out of order
FaultStep(t) ==
    \/ Step(t)
    \/ insert_node_provider(t)
    \/ insert_node_encode(t)
    \/ search_nodes_provider(t)
    \/ search_nodes_encode(t)

FaultNext ==
    \E t \in Threads :
        /\ \A u \in Threads \ {t} : pc[u] = "idle"
        /\ pc[t] = "idle" => calls = 0
        /\ FaultStep(t)

FaultInit ==
    /\ \E s \in InitialStores \cup ZeroStores : nodes = s.nodes /\ edges = s.edges
    /\ access_logs = <<>>
    /\ pc = [t \in Threads |-> "idle"]
    /\ frame = [t \in Threads |-> NoValue]
    /\ ret = [t \in Threads |-> NoValue]
    /\ calls = 0
    /\ clock = 0
    /\ navDone = [n \in NodeIds |-> 0]
    /\ justInserted = 0
    /\ LoopNotStarted

FaultSpec == FaultInit /\ [][FaultNext]_vars

\* ------------------------------------------------------------ server.py
\* The handlers of server.py wrap their whole body in try/except Exception.
\* A well-formed request goes on to the MindMapDB method of the same name (the
\* actions above); what the handlers add is the validation of the body, the
\* answer to an exception, and the two listings.
InsertFaults == {"no_json", "no_content", "tags_not_list"}

SearchFaults == {"no_json", "no_query"}

ConnectFaults == {"no_json", "no_source_id", "no_target_id", "no_relationship"}

\* the answer to a body with the given fault: request.json of a body that is
\* not JSON raises inside the try block (500), a missing or malformed field is
\* answered by the handler itself (400)
Rejection(fault) == IF fault = "no_json" THEN "InternalError" ELSE "BadRequest"

\* POST /insert with a body that does not pass the validation
insert(t) ==
    /\ Begin(t)
    /\ \E fault \in InsertFaults :
          Goto(t, "insert_validate", [op |-> "insert", fault |-> fault])
    /\ UNCHANGED <<store, navDone>>

\* variant: the node is stored before the body is validated
insert_validate_late(t) ==
    /\ pc[t] = "insert_validate"
    /\ Len(nodes) < MaxRows
    /\ nodes' = Append(nodes, NewNodeRow(NumIds, [content |-> "", tags |-> <<>>,
                                                  priority |-> "normal"],
                                         clock, ZeroVector))
    /\ Return(t, frame[t] @@ [status |-> Rejection(frame[t].fault)])
    /\ UNCHANGED <<edges, access_logs, calls, navDone>>

\* if not content / if not isinstance(tags, list): return ..., 400
insert_validate(t) ==
    /\ pc[t] = "insert_validate"
    /\ Return(t, frame[t] @@ [status |-> Rejection(frame[t].fault)])
    /\ UNCHANGED <<store, calls, navDone>>

\* POST /search with a body that does not pass the validation
search(t) ==
    /\ Begin(t)
    /\ \E fault \in SearchFaults :
          Goto(t, "search_validate", [op |-> "search", fault |-> fault])
    /\ UNCHANGED <<store, navDone>>

\* if not query: return ..., 400
search_validate(t) ==
    /\ pc[t] = "search_validate"
    /\ Return(t, frame[t] @@ [status |-> Rejection(frame[t].fault)])
    /\ UNCHANGED <<store, calls, navDone>>

\* POST /connect with a body that does not pass the validation
connect(t) ==
    /\ Begin(t)
    /\ \E fault \in ConnectFaults :
          Goto(t, "connect_validate", [op |-> "connect", fault |-> fault])
    /\ UNCHANGED <<store, navDone>>

\* if not all([source_id, target_id, relationship]): return ..., 400
connect_validate(t) ==
    /\ pc[t] = "connect_validate"
    /\ Return(t, frame[t] @@ [status |-> Rejection(frame[t].fault)])
    /\ UNCHANGED <<store, calls, navDone>>

\* GET /nodes
get_all_nodes(t) ==
    /\ Begin(t)
    /\ Goto(t, "nodes_SELECT", [op |-> "get_all_nodes"])
    /\ UNCHANGED <<store, navDone>>

\* SELECT id, content, tags, priority, access_count FROM nodes
get_all_nodes_SELECT(t) ==
    /\ pc[t] = "nodes_SELECT"
    /\ Return(t, frame[t] @@
              [rows |-> [i \in 1..Len(nodes) |->
                            [id |-> nodes[i].id, content |-> nodes[i].content,
                             tags |-> nodes[i].tags, priority |-> nodes[i].priority,
                             access_count |-> nodes[i].access_count]],
               status |-> "ok"])
    /\ UNCHANGED <<store, calls, navDone>>

\* GET /edges
get_all_edges(t) ==
    /\ Begin(t)
    /\ Goto(t, "edges_SELECT", [op |-> "get_all_edges"])
    /\ UNCHANGED <<store, navDone>>

\* SELECT source_id, target_id, relationship, semantic_strength FROM edges
get_all_edges_SELECT(t) ==
    /\ pc[t] = "edges_SELECT"
    /\ Return(t, frame[t] @@
              [rows |-> [i \in 1..Len(edges) |->
                            [source_id |-> edges[i].source_id,
                             target_id |-> edges[i].target_id,
                             relationship |-> edges[i].relationship,
                             semantic_strength |-> edges[i].semantic_strength]],
               status |-> "ok"])
    /\ UNCHANGED <<store, calls, navDone>>

\* the requests of the server
ServerStep(t) ==
    \/ Step(t)
    \/ insert(t)
    \/ insert_validate(t)
    \/ search(t)
    \/ search_validate(t)
    \/ connect(t)
    \/ connect_validate(t)
    \/ get_all_nodes(t)
    \/ get_all_nodes_SELECT(t)
    \/ get_all_edges(t)
    \/ get_all_edges_SELECT(t)

\* one request at a time; what concurrent requests do to the store is the
\* subject of Spec
ServerNext ==
    \E t \in Threads : (\A u \in Threads \ {t} : pc[u] = "idle") /\ ServerStep(t)

ServerSpec == Init /\ [][ServerNext]_vars

\* ------------------------------------------------------- autonomy_loop.py
\* A response is None or a text; a text is a sequence of tokens: the four
\* command markers, white space, and any other word.
MaxLen == 3
MaxCycles == 2

TELEGRAM_COLON == "SEND_TELEGRAM:"
TELEGRAM_SPACE == "SEND_TELEGRAM "
DISCORD_COLON == "SEND_DISCORD:"
DISCORD_SPACE == "SEND_DISCORD "
Tokens == {TELEGRAM_COLON, TELEGRAM_SPACE, DISCORD_COLON, DISCORD_SPACE, " ", "w"}

Text(s) == [is_none |-> FALSE, text |-> s]

\* what send_message_to_agent may return: None (error, timeout, no assistant
\* message) or the content of the assistant message
AgentResponses ==
    {None} \cup { Text(s) : s \in UNION { [1..n -> Tokens] : n \in 0..MaxLen } }

\* sep in s
Contains(s, sep) == \E i \in 1..Len(s) : s[i] = sep

\* the place of the first sep in s
Find(s, sep) == CHOOSE i \in 1..Len(s) : s[i] = sep /\ \A j \in 1..(i - 1) : s[j] # sep

\* s.split(sep, 1)[1] for a sep that s contains
SplitRest(s, sep) == SubSeq(s, Find(s, sep) + 1, Len(s))

\* s.split(sep)[0]
SplitFirst(s, sep) == IF Contains(s, sep) THEN SubSeq(s, 1, Find(s, sep) - 1) ELSE s

RECURSIVE LStrip(_)
LStrip(s) == IF s # <<>> /\ Head(s) = " " THEN LStrip(Tail(s)) ELSE s

RECURSIVE RStrip(_)
RStrip(s) == IF s # <<>> /\ s[Len(s)] = " " THEN RStrip(SubSeq(s, 1, Len(s) - 1)) ELSE s

\* s.strip()
Strip(s) == RStrip(LStrip(s))

\* the message after the first marker of a channel (the colon form is looked
\* for first), cut at the first marker of the other channel
CommandMessage(s, colon, space, other_colon, other_space) ==
    LET message == Strip(SplitRest(s, IF Contains(s, colon) THEN colon ELSE space))
    IN IF Contains(message, other_colon) THEN Strip(SplitFirst(message, other_colon))
       ELSE IF Contains(message, other_space) THEN Strip(SplitFirst(message, other_space))
       ELSE message

\* parse_commands(response): a dict with a key per channel whose marker occurs
parse_commands(s) ==
    (IF Contains(s, TELEGRAM_COLON) \/ Contains(s, TELEGRAM_SPACE)
     THEN [telegram |-> CommandMessage(s, TELEGRAM_COLON, TELEGRAM_SPACE,
                                       DISCORD_COLON, DISCORD_SPACE)]
     ELSE NoCommands)
    @@
    (IF Contains(s, DISCORD_COLON) \/ Contains(s, DISCORD_SPACE)
     THEN [discord |-> CommandMessage(s, DISCORD_COLON, DISCORD_SPACE,
                                      TELEGRAM_COLON, TELEGRAM_SPACE)]
     ELSE NoCommands)

\* what an integration does with a message: send_message returns True or
\* False, the import fails, or the call raises
SendOutcomes == {"sent", "failed", "ImportError", "Exception"}

\* if not response
NoResponse(r) == r = None \/ r.text = <<>>

\* main(): the first check runs at once
main ==
    /\ loop_pc = "main"
    /\ loop_pc' = "autonomous_check"
    /\ cycle' = 1
    /\ UNCHANGED <<response, commands, attempts, telegram_failures>>
    /\ UNCHANGED <<store, pc, frame, ret, calls, clock, navDone, justInserted>>

\* while True: schedule.run_pending() starts the next check when it is due
run_pending ==
    /\ loop_pc = "run_pending"
    /\ cycle < MaxCycles
    /\ loop_pc' = "autonomous_check"
    /\ cycle' = cycle + 1
    /\ response' = None
    /\ commands' = NoCommands
    /\ attempts' = <<>>
    /\ UNCHANGED telegram_failures
    /\ UNCHANGED <<store, pc, frame, ret, calls, clock, navDone, justInserted>>

\* except KeyboardInterrupt: sys.exit(0)
KeyboardInterrupt ==
    /\ loop_pc = "run_pending"
    /\ loop_pc' = "stopped"
    /\ UNCHANGED <<cycle, response, commands, attempts, telegram_failures>>
    /\ UNCHANGED <<store, pc, frame, ret, calls, clock, navDone, justInserted>>

\* response = send_message_to_agent(prompt); if not response: return
autonomous_check ==
    /\ loop_pc = "autonomous_check"
    /\ \E r \in AgentResponses :
          /\ response' = r
          /\ loop_pc' = IF NoResponse(r) THEN "run_pending" ELSE "parse_commands"
    /\ UNCHANGED <<cycle, commands, attempts, telegram_failures>>
    /\ UNCHANGED <<store, pc, frame, ret, calls, clock, navDone, justInserted>>

\* commands = parse_commands(response); if commands: ... else: ...
autonomous_check_parse ==
    /\ loop_pc = "parse_commands"
    /\ commands' = parse_commands(response.text)
    /\ loop_pc' = IF DOMAIN commands' = {} THEN "run_pending" ELSE "telegram"
    /\ UNCHANGED <<cycle, response, attempts, telegram_failures>>
    /\ UNCHANGED <<store, pc, frame, ret, calls, clock, navDone, justInserted>>

\* variant: an exception of the Telegram integration ends the check
autonomous_check_telegram_uncaught ==
    /\ loop_pc = "telegram"
    /\ IF "telegram" \in DOMAIN commands
       THEN \E outcome \in SendOutcomes :
               /\ attempts' = Append(attempts, [channel |-> "telegram",
                                                message |-> commands.telegram,
                                                outcome |-> outcome])
               /\ telegram_failures' =
                      telegram_failures + (IF outcome = "sent" THEN 0 ELSE 1)
               /\ loop_pc' = IF outcome = "Exception" THEN "run_pending" ELSE "discord"
       ELSE /\ loop_pc' = "discord"
            /\ UNCHANGED <<attempts, telegram_failures>>
    /\ UNCHANGED <<cycle, response, commands>>
    /\ UNCHANGED <<store, pc, frame, ret, calls, clock, navDone, justInserted>>

\* if 'telegram' in commands: try: ... send_telegram.send_message(...)
\* except ImportError ... except Exception ...
autonomous_check_telegram ==
    /\ loop_pc = "telegram"
    /\ IF "telegram" \in DOMAIN commands
       THEN \E outcome \in SendOutcomes :
               /\ attempts' = Append(attempts, [channel |-> "telegram",
                                                message |-> commands.telegram,
                                                outcome |-> outcome])
               /\ telegram_failures' =
                      telegram_failures + (IF outcome = "sent" THEN 0 ELSE 1)
       ELSE UNCHANGED <<attempts, telegram_failures>>
    /\ loop_pc' = "discord"
    /\ UNCHANGED <<cycle, response, commands>>
    /\ UNCHANGED <<store, pc, frame, ret, calls, clock, navDone, justInserted>>

\* if 'discord' in commands: try: ... send_discord.send_message(...)
\* except ImportError ... except Exception ...
autonomous_check_discord ==
    /\ loop_pc = "discord"
    /\ IF "discord" \in DOMAIN commands
       THEN \E outcome \in SendOutcomes :
               attempts' = Append(attempts, [channel |-> "discord",
                                             message |-> commands.discord,
                                             outcome |-> outcome])
       ELSE UNCHANGED attempts
    /\ loop_pc' = "run_pending"
    /\ UNCHANGED <<cycle, response, commands, telegram_failures>>
    /\ UNCHANGED <<store, pc, frame, ret, calls, clock, navDone, justInserted>>

LoopNext ==
    \/ main
    \/ run_pending
    \/ KeyboardInterrupt
    \/ autonomous_check
    \/ autonomous_check_parse
    \/ autonomous_check_telegram
    \/ autonomous_check_discord

\* the loop runs beside an empty store that nothing calls
LoopInit ==
    /\ nodes = <<>> /\ edges = <<>> /\ access_logs = <<>>
    /\ pc = [t \in Threads |-> "idle"]
    /\ frame = [t \in Threads |-> NoValue]
    /\ ret = [t \in Threads |-> NoValue]
    /\ calls = 0
    /\ clock = 0
    /\ navDone = [n \in NodeIds |-> 0]
    /\ justInserted = 0
    /\ LoopNotStarted

LoopSpec == LoopInit /\ [][LoopNext]_vars

\* ================================================================== claims
\* thread t takes a step
StepOf(t) == pc'[t] # pc[t] \/ frame'[t] # frame[t]

\* the call of thread t returns in this step
Returns(t) == pc[t] # "idle" /\ pc'[t] = "idle"

Running(t, op) == pc[t] # "idle" /\ frame[t].op = op

RowsWithId(ns, node_id) == { i \in 1..Len(ns) : ns[i].id = node_id }

\* C1: connect_nodes is idempotent: for existing nodes a and b and any
\* relationship, a connect_nodes(a, b, rel) call does not fail, leaves exactly
\* one edge with key (a, b, rel), and returns the strength of that edge, which
\* is the strength the first such call stored and returned.
C1_ConnectIdempotent ==
    [][\A t \in Threads :
          (Running(t, "connect_nodes") /\ Returns(t)
             /\ HasNode(nodes, frame[t].source_id) /\ HasNode(nodes, frame[t].target_id))
          => LET r == ret'[t]
                 key == EdgesWithKey(edges', r.source_id, r.target_id, r.relationship)
             IN /\ r.status = "ok"
                /\ Cardinality(key) = 1
                /\ \A i \in key : r.semantic_strength = Round3(edges'[i].semantic_strength)]_vars

\* C2: referential integrity: the source_id and the target_id of every stored
\* edge are ids of stored nodes.
C2_ReferentialIntegrity ==
    \A i \in 1..Len(edges) :
        HasNode(nodes, edges[i].source_id) /\ HasNode(nodes, edges[i].target_id)

\* a connect_nodes call has stored an edge
C2_Witness ==
    \E t \in Threads :
        /\ ret[t].op = "connect_nodes" /\ ret[t].status = "ok"
        /\ \E i \in 1..Len(edges) :
              /\ edges[i].source_id = ret[t].source_id
              /\ edges[i].target_id = ret[t].target_id
              /\ (i > 1 \/ edges[i] # Edge12)

\* C3: while no navigate_node call is in progress, the access_count of every
\* node is the number of navigate_node calls on it that have returned; a step
\* of search_nodes never changes an access_count, and each of its logging
\* steps appends one 'search' entry for the node it returns.
C3_AccessCountCountsNavigations ==
    /\ []((\A t \in Threads : ~Running(t, "navigate_node"))
            => \A n \in NodeIds : AccessCount(nodes, n) = navDone[n])
    /\ [][\A t \in Threads :
            (Running(t, "search_nodes") /\ StepOf(t))
            => /\ \A n \in NodeIds : AccessCount(nodes', n) = AccessCount(nodes, n)
               /\ pc[t] = "search_log"
                    => access_logs' =
                         Append(access_logs,
                                [node_id |-> frame[t].results[frame[t].logged + 1].node_id,
                                 access_type |-> "search"])]_vars

\* a node has been navigated once and returned by a search, nothing running
C3_Witness ==
    /\ \A t \in Threads : pc[t] = "idle"
    /\ \E n \in NodeIds :
          /\ navDone[n] = 1 /\ AccessCount(nodes, n) = 1
          /\ \E t \in Threads :
                /\ ret[t].op = "search_nodes"
                /\ \E i \in 1..Len(ret[t].results) : ret[t].results[i].node_id = n
          /\ \E i \in 1..Len(access_logs) :
                access_logs[i] = [node_id |-> n, access_type |-> "search"]

\* C4: two insert_node calls with the same id that both started while the id
\* was free end with one success and one duplicate-id failure, and with one
\* row for the id, holding the fields of the successful call.
C4_ConcurrentInsertOneWins ==
    \A t \in Threads : \A u \in Threads \ {t} :
        (/\ ret[t].op = "insert_node" /\ ret[u].op = "insert_node"
         /\ ret[t].node_id = ret[u].node_id
         /\ ret[t].fresh /\ ret[u].fresh)
        => /\ {ret[t].status, ret[u].status} = {"ok", "IntegrityError"}
           /\ Cardinality(RowsWithId(nodes, ret[t].node_id)) = 1
           /\ \A w \in {t, u} :
                 ret[w].status = "ok"
                 => NodeRow(nodes, ret[w].node_id) =
                      [NewNodeRow(ret[w].node_id, ret[w].payload,
                                  ret[w].created_at, ret[w].embedding)
                         EXCEPT !.access_count = AccessCount(nodes, ret[w].node_id)]

\* two overlapping inserts of one id with different payloads have both ended
C4_Witness ==
    \E t \in Threads : \E u \in Threads \ {t} :
        /\ ret[t].op = "insert_node" /\ ret[u].op = "insert_node"
        /\ ret[t].node_id = ret[u].node_id
        /\ ret[t].fresh /\ ret[u].fresh
        /\ ret[t].payload # ret[u].payload
        /\ ret[t].status = "ok" /\ ret[u].status = "IntegrityError"

\* C5: concurrent navigations lose no update: once no navigate_node call on
\* node n is in progress, access_count(n) has grown by the number of
\* navigate_node(n) calls that completed, however their steps interleaved.
C5_NoLostUpdate ==
    \A n \in NodeIds :
        (\A t \in Threads : ~(Running(t, "navigate_node") /\ frame[t].node_id = n))
        => AccessCount(nodes, n) = navDone[n]

\* two navigations of one node that both read the count 0 have completed
C5_Witness ==
    \E t \in Threads : \E u \in Threads \ {t} :
        /\ ret[t].op = "navigate_node" /\ ret[u].op = "navigate_node"
        /\ ret[t].status = "ok" /\ ret[u].status = "ok"
        /\ ret[t].node_id = ret[u].node_id
        /\ ret[t].node.access_count = 1 /\ ret[u].node.access_count = 1
        /\ AccessCount(nodes, ret[t].node_id) = 2

\* C6: the INSERT of insert_node on an id that is already stored fails with
\* the duplicate-id error and leaves nodes, edges and access_logs as they were.
C6_DuplicateInsertFails ==
    [][\A t \in Threads :
          (pc[t] = "insert_INSERT" /\ StepOf(t) /\ HasNode(nodes, frame[t].node_id))
          => /\ pc'[t] = "idle"
             /\ ret'[t].status = "IntegrityError"
             /\ store' = store]_vars

\* an insert_node called on a stored id has failed
C6_Witness ==
    \E t \in Threads :
        /\ ret[t].op = "insert_node" /\ ~ret[t].fresh
        /\ ret[t].status = "IntegrityError"
        /\ NodeRow(nodes, ret[t].node_id).content # ret[t].payload.content

\* C7: connect_nodes with a source_id or target_id that is no stored id fails
\* with the not-found error at its SELECT, adds no edge and leaves nodes,
\* edges and access_logs as they were.
C7_ConnectMissingEndpoint ==
    [][\A t \in Threads :
          (/\ pc[t] = "connect_SELECT" /\ StepOf(t)
           /\ ~HasNode(nodes, frame[t].source_id) \/ ~HasNode(nodes, frame[t].target_id))
          => /\ pc'[t] = "idle"
             /\ ret'[t].status = "ValueError"
             /\ store' = store]_vars

\* a connect_nodes with exactly one missing endpoint has failed
C7_Witness ==
    \E t \in Threads :
        /\ ret[t].op = "connect_nodes" /\ ret[t].status = "ValueError"
        /\ HasNode(nodes, ret[t].source_id) /\ ~HasNode(nodes, ret[t].target_id)
        /\ edges = <<>>

\* C8: navigate_node on an id that is not stored fails with the not-found
\* error, appends no access-log entry and changes no access_count.
C8_NavigateMissingNode ==
    [][\A t \in Threads :
          (pc[t] = "navigate_SELECT" /\ StepOf(t) /\ ~HasNode(nodes, frame[t].node_id))
          => /\ pc'[t] = "idle"
             /\ ret'[t].status = "ValueError"
             /\ access_logs' = access_logs
             /\ \A n \in NodeIds : AccessCount(nodes', n) = AccessCount(nodes, n)]_vars

\* a navigate_node on a missing id has failed, next to a stored node
C8_Witness ==
    \E t \in Threads :
        /\ ret[t].op = "navigate_node" /\ ret[t].status = "ValueError"
        /\ ~HasNode(nodes, ret[t].node_id)
        /\ nodes # <<>>

\* C9: the access_count a successful navigate_node(n) returns is the count
\* stored for n right after the call's own increment, also when several
\* navigate_node(n) calls interleave.
C9_ReturnsPostIncrementCount ==
    [][\A t \in Threads :
          (pc[t] = "navigate_UPDATE" /\ StepOf(t))
          => ret'[t].node.access_count = AccessCount(nodes', ret'[t].node_id)]_vars

\* C10: with one request at a time, a navigate_node that directly follows the
\* successful insert_node of the same id returns access_count 1, no outgoing
\* and no incoming connection, whatever else the store holds.
C10_InsertNavigateRoundTrip ==
    [][\A t \in Threads :
          (Running(t, "navigate_node") /\ frame[t].after_insert /\ Returns(t))
          => /\ ret'[t].status = "ok"
             /\ ret'[t].node.access_count = 1
             /\ ret'[t].outgoing_connections = <<>>
             /\ ret'[t].incoming_connections = <<>>]_vars

\* such a navigate_node has returned from a store that holds other nodes and
\* an edge
C10_Witness ==
    \E t \in Threads :
        /\ ret[t].op = "navigate_node" /\ ret[t].after_insert
        /\ ret[t].status = "ok"
        /\ Len(nodes) = 3 /\ Len(edges) = 1

UniqueEdgeKeys(es) ==
    \A i \in 1..Len(es) : \A j \in 1..Len(es) :
        (/\ es[i].source_id = es[j].source_id
         /\ es[i].target_id = es[j].target_id
         /\ es[i].relationship = es[j].relationship) => i = j

\* C11: no two stored edges share a (source_id, target_id, relationship) key,
\* and a connect_nodes call on existing nodes that runs while another thread
\* runs or has just finished connect_nodes with the same key succeeds and
\* leaves exactly one edge with that key.
C11_ConcurrentConnectOneEdge ==
    /\ [] UniqueEdgeKeys(edges)
    /\ [][\A t \in Threads : \A u \in Threads \ {t} :
            LET other == IF pc[u] = "idle" THEN ret[u] ELSE frame[u]
            IN (/\ Running(t, "connect_nodes") /\ Returns(t)
                /\ other.op = "connect_nodes"
                /\ other.source_id = frame[t].source_id
                /\ other.target_id = frame[t].target_id
                /\ other.relationship = frame[t].relationship
                /\ HasNode(nodes, frame[t].source_id)
                /\ HasNode(nodes, frame[t].target_id))
               => /\ ret'[t].status = "ok"
                  /\ Cardinality(EdgesWithKey(edges', frame[t].source_id,
                                              frame[t].target_id,
                                              frame[t].relationship)) = 1]_vars

\* the frame or result of thread t after the step
After(t) == IF pc'[t] = "idle" THEN ret'[t] ELSE frame'[t]

Min(a, b) == IF a < b THEN a ELSE b

\* cosine similarity of the stored node node_id to the query
QuerySimilarity(ns, query, node_id) ==
    Cosine(Encode(query), NodeRow(ns, node_id).embedding)

\* C12: for top_k >= 0 search_nodes returns min(top_k, |candidates|) nodes,
\* in non-increasing order of cosine similarity to the query, and no
\* candidate that is left out is strictly more similar than a returned one.
C12_SearchRanksByCosine ==
    [][\A t \in Threads :
          (pc[t] = "search_SELECT" /\ StepOf(t) /\ frame[t].top_k >= 0)
          => LET results == After(t).results
                 rows == Candidates(nodes, frame[t].tags)
                 sim(id) == QuerySimilarity(nodes, frame[t].query, id)
                 returned == { results[i].node_id : i \in 1..Len(results) }
             IN /\ pc'[t] = "search_log" \/ After(t).status = "ok"
                /\ Len(results) = Min(frame[t].top_k, Len(rows))
                /\ \A i \in 1..Len(results) : \A j \in i + 1..Len(results) :
                      ~Greater(sim(results[j].node_id), sim(results[i].node_id))
                /\ \A k \in 1..Len(rows) :
                      rows[k].id \notin returned
                      => \A id \in returned : ~Greater(sim(rows[k].id), sim(id))]_vars

\* the tags a stored row carries, as insert_node was given them
StoredTags(row) ==
    LET list == JsonLoads(row.tags) IN { list[i] : i \in 1..Len(list) }

\* the ids of the nodes that share a whole tag with the filter
SharingTag(ns, list) ==
    { ns[k].id : k \in { k \in 1..Len(ns) :
                            StoredTags(ns[k]) \cap { list[i] : i \in 1..Len(list) } # {} } }

\* C13: with a tag filter F the candidates of search_nodes are exactly the
\* nodes that share a whole tag with F (none for F = []), and without a filter
\* all nodes; seen on the searches whose top_k does not cut the result.
C13_TagFilterUnionOfExactTags ==
    [][\A t \in Threads :
          (pc[t] = "search_SELECT" /\ StepOf(t) /\ frame[t].top_k >= Len(nodes))
          => LET results == After(t).results
                 returned == { results[i].node_id : i \in 1..Len(results) }
             IN returned = IF frame[t].tags.given
                           THEN SharingTag(nodes, frame[t].tags.list)
                           ELSE { nodes[k].id : k \in 1..Len(nodes) }]_vars

\* C14: a search_nodes call that returns r nodes appends exactly r log
\* entries, one of type 'search' for each returned node and none for other
\* nodes, and leaves the nodes (every access_count included) and the edges
\* unchanged: the SELECT step writes nothing, the k-th log step appends the
\* entry of the k-th result, and the call returns with the r-th entry.
C14_SearchLogsEachResult ==
    [][\A t \in Threads :
          (StepOf(t) /\ After(t).op = "search_nodes")
          => /\ nodes' = nodes /\ edges' = edges
             /\ pc[t] \in {"idle", "search_SELECT"} => access_logs' = access_logs
             /\ pc[t] = "search_SELECT"
                => /\ Returns(t) <=> After(t).results = <<>>
                   /\ ~Returns(t) => frame'[t].logged = 0
             /\ pc[t] = "search_log"
                => /\ After(t).results = frame[t].results
                   /\ access_logs' =
                          Append(access_logs,
                                 [node_id |-> frame[t].results[frame[t].logged + 1].node_id,
                                  access_type |-> "search"])
                   /\ Returns(t) <=> frame[t].logged + 1 = Len(frame[t].results)
                   /\ ~Returns(t) => frame'[t].logged = frame[t].logged + 1]_vars

\* a search has returned two nodes and the log ends with their two entries
C14_Witness ==
    \E t \in Threads :
        /\ pc[t] = "idle" /\ ret[t].op = "search_nodes"
        /\ Len(ret[t].results) = 2 /\ Len(access_logs) >= 2
        /\ \A i \in 1..2 :
              access_logs[Len(access_logs) - 2 + i] =
                  [node_id |-> ret[t].results[i].node_id, access_type |-> "search"]

\* the ids of the nodes other than node_id whose cosine similarity to the
\* content is at least the suggestion threshold
Qualifying(ns, content, node_id) ==
    { ns[k].id : k \in { k \in 1..Len(ns) :
                            /\ ns[k].id # node_id
                            /\ AtLeast(Cosine(Encode(content), ns[k].embedding),
                                       SUGGEST_THRESHOLD) } }

\* C15: the suggestions returned by insert_node(id, ...) are other existing
\* nodes, never id itself, each with cosine similarity >= 0.5 to the new node,
\* at most 5 of them, in non-increasing order of similarity, and when more
\* than 5 nodes qualify they are the 5 most similar.
C15_SuggestionsAreMostSimilar ==
    [][\A t \in Threads :
          (pc[t] = "insert_suggest" /\ StepOf(t))
          => LET suggestions == After(t).suggested_connections
                 suggested == { suggestions[i].node_id : i \in 1..Len(suggestions) }
                 qualifying == Qualifying(nodes, frame[t].payload.content, frame[t].node_id)
                 sim(id) == QuerySimilarity(nodes, frame[t].payload.content, id)
             IN /\ suggested \subseteq qualifying
                /\ Cardinality(suggested) = Len(suggestions)
                /\ Len(suggestions) = Min(SUGGEST_TOP_K, Cardinality(qualifying))
                /\ \A i \in 1..Len(suggestions) : \A j \in i + 1..Len(suggestions) :
                      ~Greater(sim(suggestions[j].node_id), sim(suggestions[i].node_id))
                /\ \A id \in qualifying \ suggested : \A other \in suggested :
                      ~Greater(sim(id), sim(other))]_vars

\* C16: a successful insert_node adds exactly one node, with access_count 0,
\* and nothing else: the edges (suggestions create none) and the access log
\* are unchanged and every node that existed before is unchanged.
C16_InsertAddsOneNodeOnly ==
    [][\A t \in Threads :
          (StepOf(t) /\ After(t).op = "insert_node")
          => /\ edges' = edges /\ access_logs' = access_logs
             /\ IF pc[t] = "insert_INSERT" /\ ~Returns(t)
                THEN /\ Len(nodes') = Len(nodes) + 1
                     /\ SubSeq(nodes', 1, Len(nodes)) = nodes
                     /\ nodes'[Len(nodes')].id = frame[t].node_id
                     /\ nodes'[Len(nodes')].content = frame[t].payload.content
                     /\ nodes'[Len(nodes')].access_count = 0
                ELSE nodes' = nodes
             /\ (Returns(t) /\ After(t).status = "ok")
                => pc[t] = "insert_suggest" /\ HasNode(nodes, frame[t].node_id)]_vars

\* an insert has returned suggestions and the store holds no edge and no log
C16_Witness ==
    \E t \in Threads :
        /\ pc[t] = "idle" /\ ret[t].op = "insert_node" /\ ret[t].status = "ok"
        /\ ret[t].suggested_connections # <<>>
        /\ HasNode(nodes, ret[t].node_id) /\ AccessCount(nodes, ret[t].node_id) = 0
        /\ edges = <<>> /\ access_logs = <<>>

\* C17: the store is write-once: in every step every node stays, at its place
\* and with its id, content, tags, priority and embedding; every edge stays
\* unchanged; a node's access_count never decreases and changes only in the
\* UPDATE of a navigate_node call on that node.
C17_WriteOnceStore ==
    [][/\ Len(nodes') >= Len(nodes)
       /\ \A i \in 1..Len(nodes) :
             /\ [nodes'[i] EXCEPT !.access_count = 0] = [nodes[i] EXCEPT !.access_count = 0]
             /\ nodes'[i].access_count >= nodes[i].access_count
             /\ nodes'[i].access_count # nodes[i].access_count
                => \E t \in Threads :
                      /\ pc[t] = "navigate_UPDATE" /\ StepOf(t)
                      /\ frame[t].node_id = nodes[i].id
       /\ Len(edges') >= Len(edges)
       /\ SubSeq(edges', 1, Len(edges)) = edges]_vars

\* a node that was navigated and an edge, both still stored after later calls
C17_Witness ==
    /\ \A t \in Threads : pc[t] = "idle"
    /\ calls = MaxCalls
    /\ Len(edges) >= 2
    /\ \E i \in 1..Len(nodes) : nodes[i].access_count >= 1

AccessTypes == {"search", "navigate"}

\* C18: the access log is append-only: in every step the previous log is a
\* prefix of the new log, and every entry has the type 'search' or 'navigate'.
C18_AccessLogAppendOnly ==
    /\ [](\A i \in 1..Len(access_logs) : access_logs[i].access_type \in AccessTypes)
    /\ [][/\ Len(access_logs') >= Len(access_logs)
           /\ SubSeq(access_logs', 1, Len(access_logs)) = access_logs]_vars

\* the log holds a 'search' entry followed by a 'navigate' entry
C18_Witness ==
    /\ Len(access_logs) >= 2
    /\ \E i \in 1..Len(access_logs) - 1 :
          /\ access_logs[i].access_type = "search"
          /\ access_logs[i + 1].access_type = "navigate"

\* the cosine similarity of the embeddings of the two endpoints of edge e
EndpointCosine(ns, e) ==
    Cosine(NodeRow(ns, e.source_id).embedding, NodeRow(ns, e.target_id).embedding)

\* C19: in every reachable state the semantic_strength of each stored edge is
\* the cosine similarity of the embeddings of its source and target node, so
\* the edges (a, b, rel) and (b, a, rel) carry the same strength, and the
\* stored strength of an edge never changes.
C19_StrengthIsEndpointCosine ==
    /\ [](\A i \in 1..Len(edges) :
            /\ HasNode(nodes, edges[i].source_id) /\ HasNode(nodes, edges[i].target_id)
            /\ edges[i].semantic_strength = EndpointCosine(nodes, edges[i])
            /\ \A j \in 1..Len(edges) :
                  (/\ edges[j].source_id = edges[i].target_id
                   /\ edges[j].target_id = edges[i].source_id)
                  => edges[j].semantic_strength = edges[i].semantic_strength)
    /\ [][\A i \in 1..Len(edges) :
             /\ i <= Len(edges')
             /\ edges'[i].id = edges[i].id
             /\ edges'[i].semantic_strength = edges[i].semantic_strength]_vars

\* connect_nodes has stored the edge (b, a, rel) next to the edge (a, b, rel)
C19_Witness ==
    \E t \in Threads :
        /\ pc[t] = "idle" /\ ret[t].op = "connect_nodes" /\ ret[t].status = "ok"
        /\ ret[t].source_id # ret[t].target_id
        /\ HasEdge(edges, ret[t].source_id, ret[t].target_id, ret[t].relationship)
        /\ HasEdge(edges, ret[t].target_id, ret[t].source_id, ret[t].relationship)

\* the edges in which the node is source or target
Touching(es, node_id) ==
    { i \in 1..Len(es) : node_id \in {es[i].source_id, es[i].target_id} }

\* C20: get_stats returns total_nodes = |nodes| and total_edges = |edges|, a
\* most-connected node whose number of edges (as source or as target) is the
\* largest of all nodes and is the reported count, and a most-accessed node
\* whose access_count is the largest of all nodes; no step of it changes the
\* store. With no node stored both nodes are reported as None.
C20_StatsAreCorrect ==
    [][\A t \in Threads :
          (StepOf(t) /\ After(t).op = "get_stats")
          => /\ store' = store
             /\ Returns(t)
                => LET stats == After(t)
                       connected == stats.most_connected_node
                       accessed == stats.most_accessed_node
                   IN /\ stats.total_nodes = Len(nodes)
                      /\ stats.total_edges = Len(edges)
                      /\ IF nodes = <<>>
                         THEN connected = None /\ accessed = None
                         ELSE /\ HasNode(nodes, connected.id)
                              /\ connected.connection_count =
                                     Cardinality(Touching(edges, connected.id))
                              /\ \A j \in 1..Len(nodes) :
                                    Cardinality(Touching(edges, nodes[j].id))
                                        <= connected.connection_count
                              /\ HasNode(nodes, accessed.id)
                              /\ accessed.access_count = AccessCount(nodes, accessed.id)
                              /\ \A j \in 1..Len(nodes) :
                                    nodes[j].access_count <= accessed.access_count]_vars

\* get_stats has reported the node with 3 outgoing and 2 incoming edges
C20_Witness ==
    \E t \in Threads :
        /\ pc[t] = "idle" /\ ret[t].op = "get_stats"
        /\ ret[t].most_connected_node # None
        /\ ret[t].most_connected_node.connection_count = 5
        /\ Cardinality({ i \in 1..Len(edges) :
                            edges[i].source_id = ret[t].most_connected_node.id }) = 3
        /\ Cardinality({ i \in 1..Len(edges) :
                            edges[i].target_id = ret[t].most_connected_node.id }) = 2
        /\ ret[t].total_edges = 5

\* the two threads have each made one call, get_stats, and both have returned:
\* no call has written, both saw the same nodes, edges and counts
BothReportedStats ==
    /\ calls = 2
    /\ \A t \in Threads : pc[t] = "idle" /\ ret[t].op = "get_stats"

FarEnd(ns, e, far_id) ==
    [relationship |-> e.relationship, semantic_strength |-> e.semantic_strength,
     content |-> NodeRow(ns, far_id).content, tags |-> NodeRow(ns, far_id).tags]

\* the list holds one entry for each edge of the set and no other entry
ListsExactly(list, entries) ==
    /\ Len(list) = Cardinality(entries)
    /\ { list[k] : k \in 1..Len(list) } = entries

\* C23: navigate_node(n) on an existing node lists as outgoing exactly the
\* stored edges whose source is n, each with the target node's content and
\* tags, and as incoming exactly the stored edges whose target is n, each with
\* the source node's content and tags: one entry per edge, none missing, none
\* extra. Each list is exact for the store its SELECT reads, and the call
\* returns the two lists as read.
C23_NavigateListsAllEdges ==
    [][\A t \in Threads :
          (StepOf(t) /\ After(t).op = "navigate_node")
          => /\ pc[t] = "navigate_outgoing"
                => ListsExactly(After(t).outgoing_connections,
                       { [target_id |-> edges[i].target_id] @@
                             FarEnd(nodes, edges[i], edges[i].target_id) :
                         i \in { i \in 1..Len(edges) :
                                    edges[i].source_id = frame[t].node_id } })
             /\ pc[t] = "navigate_incoming"
                => /\ ListsExactly(After(t).incoming_connections,
                          { [source_id |-> edges[i].source_id] @@
                                FarEnd(nodes, edges[i], edges[i].source_id) :
                            i \in { i \in 1..Len(edges) :
                                       edges[i].target_id = frame[t].node_id } })
                   /\ After(t).outgoing_connections = frame[t].outgoing_connections
             /\ pc[t] \in {"navigate_log", "navigate_UPDATE"}
                => /\ After(t).outgoing_connections = frame[t].outgoing_connections
                   /\ After(t).incoming_connections = frame[t].incoming_connections
             /\ (Returns(t) /\ After(t).status = "ok") => pc[t] = "navigate_UPDATE"]_vars

\* navigate_node has returned a node with an outgoing and an incoming edge
C23_Witness ==
    \E t \in Threads :
        /\ pc[t] = "idle" /\ ret[t].op = "navigate_node" /\ ret[t].status = "ok"
        /\ Len(ret[t].outgoing_connections) >= 1
        /\ Len(ret[t].incoming_connections) >= 1
        /\ ret[t].outgoing_connections[1].target_id # ret[t].node_id
        /\ ret[t].incoming_connections[1].source_id # ret[t].node_id

\* C28: connect_nodes(source_id, target_id, rel) succeeds whenever both ids
\* name stored nodes, also when source_id = target_id: it returns a strength
\* and an edge with that key is stored afterwards; it fails as not found only
\* when an endpoint is absent.
C28_ConnectSucceedsOnExistingNodes ==
    [][\A t \in Threads :
          (Returns(t) /\ After(t).op = "connect_nodes")
          => /\ After(t).status = "ValueError"
                => (~HasNode(nodes, frame[t].source_id) \/ ~HasNode(nodes, frame[t].target_id))
             /\ After(t).status = "ok"
                => HasEdge(edges', frame[t].source_id, frame[t].target_id,
                           frame[t].relationship)]_vars

\* the 'navigate' log entries of the node
NavigateEntries(logs, node_id) ==
    { i \in 1..Len(logs) : logs[i] = [node_id |-> node_id, access_type |-> "navigate"] }

\* for every node the number of its 'navigate' log entries is its access_count
LogMatchesCounter ==
    \A i \in 1..Len(nodes) :
        Cardinality(NavigateEntries(access_logs, nodes[i].id)) = nodes[i].access_count

\* C29: in every state that an operation observes, the states between the
\* steps of another request's navigate_node included, each node has as many
\* 'navigate' log entries as its access_count says: the log append and the
\* increment of one navigation take effect together. The observers are the
\* statements of the requests, the UPDATE that ends a navigation excepted.
C29_LogAndCounterTogether ==
    [][\A t \in Threads :
          (StepOf(t) /\ pc[t] \notin {"idle", "navigate_UPDATE"})
          => LogMatchesCounter]_vars

\* the most results a caller asking for top_k may get
AtMost(top_k) == IF top_k > 0 THEN top_k ELSE 0

\* C30: for any integer top_k, search_nodes returns at most top_k nodes and
\* writes at most top_k log entries; for top_k = 0 and for negative top_k it
\* returns nothing and logs nothing.
C30_SearchBoundedByTopK ==
    [][\A t \in Threads :
          (StepOf(t) /\ After(t).op = "search_nodes")
          => /\ pc[t] = "search_SELECT" => Len(After(t).results) <= AtMost(frame[t].top_k)
             /\ pc[t] = "search_log"
                => /\ frame[t].logged < AtMost(frame[t].top_k)
                   /\ Len(access_logs') = Len(access_logs) + 1
             /\ pc[t] # "search_log" => access_logs' = access_logs]_vars

\* row a comes before row b by creation time, then id
CreatedBefore(a, b) ==
    \/ a.created_at < b.created_at
    \/ a.created_at = b.created_at /\ a.id <= b.id

\* the listed nodes that are equally similar to the query stand in the order
\* of their creation time, then id
TiesInCreationOrder(ns, list, query_embedding) ==
    \A i \in 1..Len(list) : \A j \in i + 1..Len(list) :
        LET a == NodeRow(ns, list[i].node_id)
            b == NodeRow(ns, list[j].node_id)
        IN Cosine(query_embedding, a.embedding) = Cosine(query_embedding, b.embedding)
           => CreatedBefore(a, b)

\* rows whose order in the table is not the order of their created_at
StoredOutOfCreationOrder ==
    \E i \in 1..Len(nodes) : \E j \in i + 1..Len(nodes) :
        nodes[j].created_at < nodes[i].created_at

\* C22: candidates that are equally similar to the query are listed by
\* ascending creation time, then id, in the result of search_nodes and in the
\* suggestions of insert_node, so that the order does not follow the order in
\* which the rows are stored or scanned.
C22_TiesBrokenByCreationTime ==
    [][\A t \in Threads :
          /\ (pc[t] = "search_SELECT" /\ StepOf(t))
             => TiesInCreationOrder(nodes, After(t).results, Encode(frame[t].query))
          /\ (pc[t] = "insert_suggest" /\ StepOf(t))
             => TiesInCreationOrder(nodes, After(t).suggested_connections,
                                    Encode(frame[t].payload.content))]_vars

\* C24: when the embedding provider fails during insert_node or search_nodes
\* the call fails with the provider's error and the store is unchanged: no
\* node is persisted (none with a zero or substitute embedding), no edge is
\* added and no log entry is written.
C24_ProviderErrorPropagates ==
    [][\A t \in Threads :
          /\ (StepOf(t) /\ pc[t] = "idle") => store' = store
          /\ (StepOf(t) /\ pc[t] \in {"insert_encode", "search_encode"}
                        /\ frame[t].provider = "error")
             => /\ Returns(t)
                /\ After(t).status = "ProviderError"
                /\ store' = store]_vars

\* an insert_node call has failed with the provider's error on a store that
\* holds nodes
C24_Witness ==
    \E t \in Threads :
        /\ pc[t] = "idle" /\ ret[t].op = "insert_node"
        /\ ret[t].status = "ProviderError"
        /\ nodes # <<>> /\ ~HasNode(nodes, ret[t].node_id)

\* C25: every stored node's embedding has the dimension fixed when the store
\* was initialized; an insert_node for which the provider returns a vector of
\* another length is rejected and persists no node.
C25_EmbeddingDimensionConstant ==
    /\ [](\A i \in 1..Len(nodes) : Len(nodes[i].embedding) = EmbeddingDim)
    /\ [][\A t \in Threads :
             (StepOf(t) /\ pc[t] \in {"insert_INSERT", "insert_suggest"}
                        /\ Len(frame[t].embedding) # EmbeddingDim)
             => nodes' = nodes /\ After(t).status # "ok"]_vars

\* C26: whenever search_nodes, the suggestion scan of insert_node or
\* connect_nodes computes a similarity with a vector of norm 0, the similarity
\* is 0 and the call completes normally.
C26_ZeroNormSimilarityIsZero ==
    [][\A t \in Threads :
          /\ (StepOf(t) /\ pc[t] = "search_SELECT"
                        /\ frame[t].query_embedding = ZeroVector)
             => /\ pc'[t] = "search_log" \/ After(t).status = "ok"
                /\ \A i \in 1..Len(After(t).results) :
                      After(t).results[i].similarity = 0
          /\ (StepOf(t) /\ pc[t] = "insert_suggest"
                        /\ frame[t].embedding = ZeroVector)
             => /\ After(t).status = "ok"
                /\ After(t).suggested_connections = <<>>
          /\ (StepOf(t) /\ pc[t] = "connect_SELECT" /\ ~Returns(t)
                        /\ \E i \in 1..Len(nodes) :
                              /\ nodes[i].id \in {frame[t].source_id, frame[t].target_id}
                              /\ nodes[i].embedding = ZeroVector)
             => /\ After(t).semantic_strength.num = 0
                /\ ~IsNaN(After(t).semantic_strength)]_vars

\* ---------------------------------------------------------------------
\* the answers of the server: jsonify(result), or {"error": ...} with 400 or 500
Responses == {"ok", "BadRequest", "InternalError", "ValueError", "IntegrityError"}

\* the call that thread t is in, or enters, in this step
CallOf(t) == IF pc[t] = "idle" THEN frame'[t] ELSE frame[t]

\* a request whose body does not pass the handler's validation
Rejected(f) == f.op \in {"insert", "search", "connect"}

\* the statements of the handlers; each has its action in ServerStep, whose
\* only guard is that the thread is at it
ServerStatements ==
    {"insert_validate", "insert_INSERT", "insert_suggest",
     "search_validate", "search_SELECT", "search_log",
     "connect_validate", "connect_SELECT", "connect_INSERT",
     "navigate_SELECT", "navigate_outgoing", "navigate_incoming", "navigate_log",
     "navigate_UPDATE",
     "stats_edges", "stats_connected", "stats_accessed",
     "nodes_SELECT", "edges_SELECT"}

\* thread t is free for the next request, or at a statement of a handler
Serving(t) == pc[t] = "idle" \/ pc[t] \in ServerStatements

\* C27: every request ends in a success value or an error response, after
\* which the service takes up later requests; a request rejected for a missing
\* or malformed field (no content, tags not a list, no query, no source_id,
\* target_id or relationship) is answered with an error and leaves nodes, edges
\* and access_logs as they were.
C27_RequestsEndInResponse ==
    /\ [](\A t \in Threads : Serving(t))
    /\ [][\A t \in Threads : StepOf(t) =>
            /\ Returns(t) => ret'[t].status \in Responses
            /\ Rejected(CallOf(t)) =>
                  /\ store' = store
                  /\ Returns(t) =>
                        ret'[t].status = IF CallOf(t).fault = "no_json"
                                         THEN "InternalError" ELSE "BadRequest"]_vars

\* a request was rejected for a malformed field, and the request served last
\* stored a node
C27_Witness ==
    /\ justInserted # 0
    /\ \E t \in Threads : ret[t].op \in {"insert", "search", "connect"}
                          /\ ret[t].status = "BadRequest"

\* the ids of the rows of table nodes
StoredIds(ns) == { ns[i].id : i \in 1..Len(ns) }

\* C31: in every reachable state, the node_id of every entry of access_logs
\* is the id of a row of nodes.
C31_LoggedNodesExist ==
    \A i \in 1..Len(access_logs) : access_logs[i].node_id \in StoredIds(nodes)

\* a search and a navigation have both been logged
C31_Witness ==
    /\ \E i \in 1..Len(access_logs) : access_logs[i].access_type = "search"
    /\ \E i \in 1..Len(access_logs) : access_logs[i].access_type = "navigate"

\* ---------------------------------------------------------------------
LoopChannels == {"telegram", "discord"}

\* the places in attempts of the sends on a channel
ChannelAttempts(channel) == { i \in 1..Len(attempts) : attempts[i].channel = channel }

\* a marker of the channel occurs in the text
Mentions(s, channel) ==
    \E i \in 1..Len(s) :
        s[i] \in (IF channel = "telegram" THEN {"SEND_TELEGRAM:", "SEND_TELEGRAM "}
                                          ELSE {"SEND_DISCORD:", "SEND_DISCORD "})

\* C32: in one autonomous_check cycle, no send is attempted when the agent
\* returned None or an empty text; otherwise each channel is attempted at most
\* once and only if its command occurs in the response; whatever the Telegram
\* send did (returned False, failed to import, raised), the Discord send is
\* attempted when its command occurs, and the loop goes back to run_pending,
\* which it leaves for good only on the user's interrupt.
C32_CycleSendsAtMostOncePerChannel ==
    /\ []((response = None \/ response.text = <<>>) => attempts = <<>>)
    /\ [](\A channel \in LoopChannels :
             /\ Cardinality(ChannelAttempts(channel)) <= 1
             /\ ChannelAttempts(channel) # {}
                   => response # None /\ Mentions(response.text, channel))
    /\ []((/\ loop_pc \in {"run_pending", "stopped"}
           /\ response # None
           /\ Mentions(response.text, "discord"))
          => ChannelAttempts("discord") # {})
    /\ [][/\ loop_pc = "telegram" => loop_pc' = "discord"
          /\ loop_pc = "discord" => loop_pc' = "run_pending"
          /\ loop_pc' = "stopped" => loop_pc = "run_pending"]_vars

\* in a cycle after one whose Telegram send failed, the Telegram send raised
\* and the Discord message was sent
C32_Witness ==
    /\ cycle = 2
    /\ telegram_failures = 2
    /\ loop_pc = "run_pending"
    /\ \E i \in ChannelAttempts("telegram") : attempts[i].outcome = "Exception"
    /\ \E i \in ChannelAttempts("discord") : attempts[i].outcome = "sent"
====
